---- MODULE Spec2Model ----
(***************************************************************************)
(* Model of the music-video player: the App component (playback, frame     *)
(* callback chain, export/capture pipeline) and the CanvasPlayer (asset     *)
(* caches, preload effect, render effect, text wrapping).                  *)
(*                                                                         *)
(* Time is counted in ticks.  In the App part one tick is the 100 ms       *)
(* settle delay of the export; in the render part one tick is 0.5 s (the   *)
(* intro offset of the compositor).                                        *)
(***************************************************************************)
EXTENDS Integers, Sequences, FiniteSets, TLC

\* ---------------------------------------------------------------- bounds
MaxSessions == 2     \* audio files loaded (sessions) in one run
MaxExports  == 2     \* export requests in one run
MaxDur      == 3     \* longest audio, in ticks
MaxT        == 2     \* largest timeIndex / startTime / endTime, in render ticks
MaxItems    == 2     \* visuals plus lyric segments of one session
MaxUrls     == 2     \* distinct mediaUrls among the visuals handed to a player
MaxLen      == 3     \* longest text wrapped, in characters
MaxCharW    == 2     \* widest character, in width units
MaxWidth    == 4     \* largest maxWidth, in width units
MaxSegs     == 5     \* longest segment list handed to generateMVVisuals
MaxStart    == 4     \* largest startTime of such a segment, in steps of 20 s
MaxImages   == 3     \* the cap on image visuals (maxItems, 8 in the source),
                     \* lowered so that lists of MaxSegs segments exceed it
MaxVideos   == 2     \* the cap on video visuals (maxItems, 4 in the source)
MaxTicks    == 60    \* longest time / duration of the animation curves, in
                     \* animation ticks of 0.05 s

\* ------------------------------------------------------ program constants
SettleTicks == 1     \* setTimeout(..., 100): the settle delay, one tick
IntroLead   == 1     \* firstLyricTime - 0.5: half a second, one render tick

\* The animation curves count time in ticks of 0.05 s.
EntryDur     == 5    \* entryDur = 0.25 (Snap)
FadeIn       == 20   \* currentTime < 1: the title fades in for one second
IntroEnd     == 10   \* firstLyricTime - 0.5: the intro ends
FadeOutStart == 30   \* firstLyricTime - 1.5: the title starts to fade out
\* Ken Burns, in render ticks of 0.5 s.
KenBurnsDur  == 20   \* timeElapsed / 10: the zoom lasts ten seconds

\* The audio of a session is a piece of music: it lasts longer than the
\* settle delay of an export.
MinDur == SettleTicks + 1

VARIABLES
  \* ---- App (React state and refs)
  status,         \* AppStatus, "busy" = Uploading/AnalyzingAudio/GeneratingVisuals
  session,        \* number of the mounted (or last mounted) audio element / mvData
  isPlaying,      \* useState isPlaying
  isRecording,    \* useState isRecording
  currentTime,    \* useState currentTime, the time handed to CanvasPlayer
  paused,         \* audioRef.current.paused
  pos,            \* audioRef.current.currentTime
  dur,            \* audioRef.current.duration
  raf,            \* number of pending requestAnimationFrame callbacks
  audioCtxRef,    \* audioCtxRef.current # null
  sourceNodeRef,  \* 0 = null, else the session whose audio element it taps
  sourcesCreated, \* per session's audio element, the createMediaElementSource calls that returned
  mediaStreamDestRef, \* mediaStreamDestRef.current # null
  recs,           \* the MediaRecorders created by handleDirectDownload, in order
  files,          \* the files delivered by a.click(), in order
  requests,       \* export requests made
  thrown,         \* exceptions raised while arming an export
  alerts,         \* alert() calls
  \* ---- CanvasPlayer (props, caches and the frame drawn)
  images,         \* prop images: sequence of [timeIndex, type, mediaUrl]
  lyrics,         \* prop lyrics: sequence of [startTime, endTime]
  fontsLoaded,    \* useState fontsLoaded
  frame,          \* what the last run of the render effect drew
  mounted,        \* a CanvasPlayer instance is rendered
  crashed,        \* the render effect threw
  elements,       \* the Image / video elements created so far: [url, type]
  imageCache,     \* imageCache.current: mediaUrl -> element (index in elements)
  videoCache,     \* videoCache.current: mediaUrl -> element (index in elements)
  playing,        \* the video elements with paused = false
  \* ---- getWrappedLines (one call)
  wrapText,       \* argument text: the sequence of its characters' widths
  wrapMaxWidth,   \* argument maxWidth
  wrapLines,      \* the lines returned, <<>> before the call
  \* ---- the animation curves of the render effect (one evaluation)
  animTime,       \* elapsed (lyric styles) or currentTime (intro), in ticks
  animSpan,       \* lyricDuration (Karaoke) or firstLyricTime (intro), in ticks
  animOut,        \* the value computed, a fraction [n, d]; NoValue before
  \* ---- one call of generateMVVisuals
  segments,       \* the argument segments: records [startTime], in any order
  visualType,     \* the argument visualType: "image" or "video"
  genI,           \* the loop variable i of the generation loop, from 1
  genSkipped,     \* the indices i whose generation pushed no visual
  visuals,        \* the local array visuals
  genReturned     \* return visuals was reached

appVars == <<status, session, isPlaying, isRecording, currentTime, paused, pos,
             dur, raf, audioCtxRef, sourceNodeRef, sourcesCreated, mediaStreamDestRef, recs,
             files, requests, thrown, alerts>>
wrapVars == <<wrapText, wrapMaxWidth, wrapLines>>
animVars == <<animTime, animSpan, animOut>>
genVars == <<segments, visualType, genI, genSkipped, visuals, genReturned>>
canvasVars == <<images, lyrics, fontsLoaded, frame, mounted, crashed, elements,
                imageCache, videoCache, playing, wrapVars, animVars, genVars>>
vars == <<appVars, canvasVars>>

\* ------------------------------------------------------------- helpers
\* audioRef.current is set exactly while the <audio> element is rendered.
AudioMounted == status = "ready"

\* (mutant) the audio loop effect without its cleanup
AudioLoopEffect_NoCancel(was, now, pending) ==
  IF was = now THEN pending
  ELSE pending + (IF now THEN 1 ELSE 0)

\* The audio loop effect, re-run when isPlaying changed: the cleanup cancels
\* the pending callback, the body requests one when isPlaying.
AudioLoopEffect(was, now, pending) ==
  IF was = now THEN pending
  ELSE (IF pending > 0 THEN pending - 1 ELSE 0) + (IF now THEN 1 ELSE 0)

\* audio.play(): un-pauses; an element that has ended restarts from 0.
PlayPos(p, d) == IF p = d THEN 0 ELSE p

NoFrame == [drawn |-> FALSE]

\* ---------------------------------------------------------------- Init
AppInit ==
  /\ status = "idle"
  /\ session = 0
  /\ isPlaying = FALSE
  /\ isRecording = FALSE
  /\ currentTime = 0
  /\ paused = TRUE
  /\ pos = 0
  /\ dur = 0
  /\ raf = 0
  /\ audioCtxRef = FALSE
  /\ sourceNodeRef = 0
  /\ sourcesCreated = [s \in 1..MaxSessions |-> 0]
  /\ mediaStreamDestRef = FALSE
  /\ recs = <<>>
  /\ files = <<>>
  /\ requests = 0
  /\ thrown = 0
  /\ alerts = 0

WrapIdle ==
  /\ wrapText = <<>>
  /\ wrapMaxWidth = 0
  /\ wrapLines = <<>>

NoValue == [kind |-> "none"]

AnimIdle ==
  /\ animTime = 0
  /\ animSpan = 0
  /\ animOut = NoValue

GenIdle ==
  /\ segments = <<>>
  /\ visualType = "image"
  /\ genI = 1
  /\ genSkipped = {}
  /\ visuals = <<>>
  /\ genReturned = TRUE

CanvasIdle ==
  /\ WrapIdle
  /\ AnimIdle
  /\ GenIdle
  /\ images = <<>>
  /\ lyrics = <<>>
  /\ fontsLoaded = FALSE
  /\ frame = NoFrame
  /\ mounted = FALSE
  /\ crashed = FALSE
  /\ elements = <<>>
  /\ imageCache = <<>>
  /\ videoCache = <<>>
  /\ playing = {}

Init == AppInit /\ CanvasIdle

\* ------------------------------------------------------- handleFileUpload
UploadStart ==
  /\ status = "idle"
  /\ session < MaxSessions
  /\ status' = "busy"
  /\ UNCHANGED <<session, isPlaying, isRecording, currentTime, paused, pos, dur,
                 raf, audioCtxRef, sourceNodeRef, sourcesCreated, mediaStreamDestRef, recs,
                 files, requests, thrown, alerts, canvasVars>>

\* setMvData + setStatus(Ready): a new <audio> element is mounted, paused at 0.
UploadDone ==
  /\ status = "busy"
  /\ \E d \in MinDur..MaxDur :
       /\ dur' = d
       /\ status' = "ready"
       /\ session' = session + 1
       /\ paused' = TRUE
       /\ pos' = 0
  /\ UNCHANGED <<isPlaying, isRecording, currentTime, raf, audioCtxRef,
                 sourceNodeRef, sourcesCreated, mediaStreamDestRef, recs, files, requests,
                 thrown, alerts, canvasVars>>

UploadFail ==
  /\ status = "busy"
  /\ status' = "error"
  /\ UNCHANGED <<session, isPlaying, isRecording, currentTime, paused, pos, dur,
                 raf, audioCtxRef, sourceNodeRef, sourcesCreated, mediaStreamDestRef, recs,
                 files, requests, thrown, alerts, canvasVars>>

\* ---------------------------------------------------------- handleRestart
\* The restart button is rendered in the Ready view only while not recording,
\* and in the Error view.
\* (mutant) the restart button shown also while recording
RestartOffered_WhileRecording == status = "ready" \/ status = "error"

RestartOffered == (status = "ready" /\ ~isRecording) \/ status = "error"

\* (mutant) handleRestart without releasing the audio tap
ReleaseTap_Kept == UNCHANGED <<sourceNodeRef, sourcesCreated, mediaStreamDestRef>>

\* sourceNodeRef.current.disconnect(); both refs set to null
ReleaseTap ==
  /\ sourceNodeRef' = 0
  /\ mediaStreamDestRef' = FALSE
  /\ UNCHANGED sourcesCreated

handleRestart ==
  /\ RestartOffered
  /\ paused' = TRUE
  /\ pos' = 0
  /\ dur' = 0
  /\ ReleaseTap
  /\ status' = "idle"
  /\ isPlaying' = FALSE
  /\ currentTime' = 0
  /\ isRecording' = FALSE
  /\ raf' = AudioLoopEffect(isPlaying, FALSE, raf)
  /\ UNCHANGED <<session, audioCtxRef, recs, files, requests, thrown, alerts,
                 canvasVars>>

\* ------------------------------------------------- togglePlay, handleTimeSeek
\* The control bar lives in the wrapper that gets pointer-events-none while
\* recording.
ControlsEnabled == status = "ready" /\ ~isRecording

togglePlay ==
  /\ ControlsEnabled
  /\ IF paused
       THEN /\ paused' = FALSE
            /\ pos' = PlayPos(pos, dur)
            /\ isPlaying' = TRUE
       ELSE /\ paused' = TRUE
            /\ pos' = pos
            /\ isPlaying' = FALSE
  /\ raf' = AudioLoopEffect(isPlaying, isPlaying', raf)
  /\ UNCHANGED <<status, session, isRecording, currentTime, dur, audioCtxRef,
                 sourceNodeRef, sourcesCreated, mediaStreamDestRef, recs, files, requests,
                 thrown, alerts, canvasVars>>

handleTimeSeek ==
  /\ ControlsEnabled
  /\ \E time \in 0..dur :
       /\ pos' = time
       /\ currentTime' = time
  /\ UNCHANGED <<status, session, isPlaying, isRecording, paused, dur, raf,
                 audioCtxRef, sourceNodeRef, sourcesCreated, mediaStreamDestRef, recs, files,
                 requests, thrown, alerts, canvasVars>>

\* ---------------------------------------------------- handleDirectDownload
\* The export button is rendered in the Ready view only while not recording.
\* (mutant) the export button shown also while recording
ExportOffered_WhileRecording == status = "ready"

ExportOffered == status = "ready" /\ ~isRecording

\* new MediaRecorder(combinedStream, options) with its handlers, the pending
\* setTimeout and the 'ended' listener of this export.
NewRecorder(s) ==
  [state |-> "inactive", timer |-> TRUE, settle |-> SettleTicks,
   listener |-> TRUE, sess |-> s, stopQ |-> FALSE, threw |-> FALSE,
   started |-> FALSE, startPos |-> 0, captured |-> 0]

\* catch (err): setIsRecording(false); alert(...)
ExportCatch ==
  /\ isRecording' = FALSE
  /\ alerts' = alerts + 1
  /\ thrown' = thrown + 1
  /\ UNCHANGED <<status, session, isPlaying, currentTime, paused, pos, dur, raf,
                 recs, files>>

\* if (!sourceNodeRef.current) { createMediaElementSource; createMediaStreamDestination }
\* (mutant) the source is created at every export, without the null test
TapAudio_NoNullTest ==
  /\ audioCtxRef' = TRUE
  /\ sourceNodeRef' = session
  /\ sourcesCreated' = [sourcesCreated EXCEPT ![session] = @ + 1]
  /\ mediaStreamDestRef' = TRUE

TapAudio ==
  /\ audioCtxRef' = TRUE
  /\ sourceNodeRef' = IF sourceNodeRef = 0 THEN session ELSE sourceNodeRef
  /\ sourcesCreated' = IF sourceNodeRef = 0
                         THEN [sourcesCreated EXCEPT ![session] = @ + 1]
                         ELSE sourcesCreated
  /\ mediaStreamDestRef' = IF sourceNodeRef = 0 THEN TRUE ELSE mediaStreamDestRef

handleDirectDownload ==
  /\ ExportOffered
  /\ requests < MaxExports
  /\ requests' = requests + 1
  /\ \/ \* new AudioContext() throws
        /\ ~audioCtxRef
        /\ UNCHANGED <<audioCtxRef, sourceNodeRef, sourcesCreated, mediaStreamDestRef>>
        /\ ExportCatch
     \/ \* createMediaElementSource / createMediaStreamDestination throws
        /\ sourceNodeRef = 0
        /\ audioCtxRef' = TRUE
        /\ UNCHANGED <<sourceNodeRef, sourcesCreated, mediaStreamDestRef>>
        /\ ExportCatch
     \/ \* captureStream / new MediaRecorder throws
        /\ TapAudio
        /\ ExportCatch
     \/ \* the recorder is armed
        /\ TapAudio
        /\ recs' = Append(recs, NewRecorder(session))
        /\ isRecording' = TRUE
        /\ isPlaying' = TRUE
        /\ pos' = 0
        /\ currentTime' = 0
        /\ raf' = AudioLoopEffect(isPlaying, TRUE, raf)
        /\ UNCHANGED <<status, session, paused, dur, files, thrown, alerts>>
  /\ UNCHANGED canvasVars

\* The setTimeout callback of export r: resume, mediaRecorder.start(), play().
\* An exception here is outside the try block of handleDirectDownload.
Started(rec, at) ==
  [rec EXCEPT !.timer = FALSE, !.state = "recording", !.started = TRUE,
              !.startPos = at]

SettleTimeout ==
  \E r \in DOMAIN recs :
    /\ recs[r].timer
    /\ recs[r].settle = 0
    /\ \/ /\ recs' = [recs EXCEPT ![r] =
                        Started(recs[r],
                                IF AudioMounted THEN PlayPos(pos, dur) ELSE 0)]
          /\ IF AudioMounted
               THEN paused' = FALSE /\ pos' = PlayPos(pos, dur)
               ELSE UNCHANGED <<paused, pos>>
          /\ UNCHANGED thrown
       \/ /\ recs' = [recs EXCEPT ![r].timer = FALSE, ![r].threw = TRUE]
          /\ thrown' = thrown + 1
          /\ UNCHANGED <<paused, pos>>
    /\ UNCHANGED <<status, session, isPlaying, isRecording, currentTime, dur,
                   raf, audioCtxRef, sourceNodeRef, sourcesCreated, mediaStreamDestRef, files,
                   requests, alerts, canvasVars>>

\* ------------------------------------------------------------ updateLoop
\* A pending frame callback runs.
updateLoop ==
  /\ raf > 0
  /\ IF AudioMounted
       THEN /\ currentTime' = pos
            /\ raf' = (raf - 1) + (IF ~paused THEN 1 ELSE 0)
       ELSE /\ currentTime' = currentTime
            /\ raf' = raf - 1
  /\ UNCHANGED <<status, session, isPlaying, isRecording, paused, pos, dur,
                 audioCtxRef, sourceNodeRef, sourcesCreated, mediaStreamDestRef, recs, files,
                 requests, thrown, alerts, canvasVars>>

\* --------------------------------------------------------- passage of time
\* One tick passes: a playing audio advances, pending settle timers run down,
\* a recording recorder captures.  A due timer or a due 'ended' goes first.
Ticked(rec) ==
  [rec EXCEPT !.settle = IF rec.timer THEN rec.settle - 1 ELSE rec.settle,
              !.captured = IF rec.state = "recording" /\ rec.captured < MaxDur
                             THEN rec.captured + 1 ELSE rec.captured]

Advance ==
  /\ \A r \in DOMAIN recs : recs[r].timer => recs[r].settle > 0
  /\ ~(AudioMounted /\ ~paused /\ pos = dur)
  /\ (AudioMounted /\ ~paused) \/ (\E r \in DOMAIN recs : recs[r].timer)
  /\ pos' = IF AudioMounted /\ ~paused THEN pos + 1 ELSE pos
  /\ recs' = [r \in DOMAIN recs |-> Ticked(recs[r])]
  /\ UNCHANGED <<status, session, isPlaying, isRecording, currentTime, paused,
                 dur, raf, audioCtxRef, sourceNodeRef, sourcesCreated, mediaStreamDestRef,
                 files, requests, thrown, alerts, canvasVars>>

\* ------------------------------------------------------- the 'ended' event
\* handleEnded of one export: stop a recording recorder, drop the listener.
\* (mutant) the listener forgets to stop the recorder
handleEnded_NoStop(rec) == [rec EXCEPT !.listener = FALSE]

handleEnded(rec) ==
  [rec EXCEPT !.state = "inactive",
              !.stopQ = (rec.state = "recording") \/ rec.stopQ,
              !.listener = FALSE]

\* Playback reached the end: the element pauses and fires 'ended'; the
\* onEnded prop runs, then every listener added to this element.
AudioEnded ==
  /\ AudioMounted
  /\ ~paused
  /\ pos = dur
  /\ paused' = TRUE
  /\ LET L == {r \in DOMAIN recs : recs[r].listener /\ recs[r].sess = session}
     IN /\ recs' = [r \in DOMAIN recs |->
                      IF r \in L THEN handleEnded(recs[r]) ELSE recs[r]]
        /\ isPlaying' = IF ~isRecording \/ L # {} THEN FALSE ELSE isPlaying
  /\ raf' = AudioLoopEffect(isPlaying, isPlaying', raf)
  /\ UNCHANGED <<status, session, isRecording, currentTime, pos, dur,
                 audioCtxRef, sourceNodeRef, sourcesCreated, mediaStreamDestRef, files,
                 requests, thrown, alerts, canvasVars>>

\* ------------------------------------------------------ mediaRecorder.onstop
\* The stop event of recorder r is dispatched: the chunks become one file,
\* named from the title of the mvData the export closed over.
Download(r) == [rec |-> r, title |-> recs[r].sess, size |-> recs[r].captured]

onstop ==
  \E r \in DOMAIN recs :
    /\ recs[r].stopQ
    /\ recs' = [recs EXCEPT ![r].stopQ = FALSE]
    /\ files' = Append(files, Download(r))
    /\ isRecording' = FALSE
    /\ UNCHANGED <<status, session, isPlaying, currentTime, paused, pos, dur,
                   raf, audioCtxRef, sourceNodeRef, sourcesCreated, mediaStreamDestRef,
                   requests, thrown, alerts, canvasVars>>

\* =========================================================== CanvasPlayer
\* Indices are 1-based: images[1] is the source's images[0]; 0 stands for
\* undefined (no active visual, no active lyric).

VisualTypes == {"image", "video"}

\* --- 1. Identify Active Visual: start from images[0], walk forward while
\* currentTime >= timeIndex, stop at the first later one.
RECURSIVE ScanVisual(_, _, _, _)
ScanVisual(imgs, t, i, cur) ==
  IF i > Len(imgs) THEN cur
  ELSE IF t >= imgs[i].timeIndex THEN ScanVisual(imgs, t, i + 1, i)
  ELSE cur

\* (mutant) activeVisual starts undefined instead of images[0]
ActiveVisual_NoDefault(imgs, t) == ScanVisual(imgs, t, 1, 0)

\* (mutant) the walk uses > instead of >=
RECURSIVE ScanVisualStrict(_, _, _, _)
ScanVisualStrict(imgs, t, i, cur) ==
  IF i > Len(imgs) THEN cur
  ELSE IF t > imgs[i].timeIndex THEN ScanVisualStrict(imgs, t, i + 1, i)
  ELSE cur

ActiveVisual_Strict(imgs, t) ==
  ScanVisualStrict(imgs, t, 1, IF Len(imgs) > 0 THEN 1 ELSE 0)

ActiveVisual(imgs, t) == ScanVisual(imgs, t, 1, IF Len(imgs) > 0 THEN 1 ELSE 0)

\* --- Preload Visuals: one element per mediaUrl not yet in the cache of its
\* type; creating the element starts its load (image.src = ..., vid.load()).
NewElement(vis) == [url |-> vis.mediaUrl, type |-> vis.type]

\* (mutant) an element is created for every visual, cached or not
RECURSIVE PreloadFrom_NoHasCheck(_, _, _, _, _)
PreloadFrom_NoHasCheck(imgs, i, els, ic, vc) ==
  IF i > Len(imgs) THEN [elements |-> els, imageCache |-> ic, videoCache |-> vc]
  ELSE LET vis == imgs[i]
           id == Len(els) + 1
           put(c) == [u \in DOMAIN c \cup {vis.mediaUrl} |->
                        IF u = vis.mediaUrl THEN id ELSE c[u]]
       IN IF vis.type = "image"
            THEN PreloadFrom_NoHasCheck(imgs, i + 1, Append(els, NewElement(vis)),
                                        put(ic), vc)
            ELSE PreloadFrom_NoHasCheck(imgs, i + 1, Append(els, NewElement(vis)),
                                        ic, put(vc))

RECURSIVE PreloadFrom(_, _, _, _, _)
PreloadFrom(imgs, i, els, ic, vc) ==
  IF i > Len(imgs) THEN [elements |-> els, imageCache |-> ic, videoCache |-> vc]
  ELSE LET vis == imgs[i]
           id == Len(els) + 1
       IN IF vis.type = "image"
            THEN IF vis.mediaUrl \in DOMAIN ic
                   THEN PreloadFrom(imgs, i + 1, els, ic, vc)
                   ELSE PreloadFrom(imgs, i + 1, Append(els, NewElement(vis)),
                                    ic @@ (vis.mediaUrl :> id), vc)
            ELSE IF vis.mediaUrl \in DOMAIN vc
                   THEN PreloadFrom(imgs, i + 1, els, ic, vc)
                   ELSE PreloadFrom(imgs, i + 1, Append(els, NewElement(vis)),
                                    ic, vc @@ (vis.mediaUrl :> id))

\* (mutant) the preload effect without the has() checks
Preload_NoHasCheck(imgs, els) == PreloadFrom_NoHasCheck(imgs, 1, els, <<>>, <<>>)

\* The preload effect of a new instance: both cache Maps start empty.
Preload(imgs, els) == PreloadFrom(imgs, 1, els, <<>>, <<>>)

\* --- 2. Draw Visual.
\* The state of the active visual's element when the frame is drawn: still
\* loading, ready (decoded; readyState >= 2), or failed (the load ended in an
\* error).
ElementStates(imgs, a) ==
  IF a = 0 THEN {"none"} ELSE {"loading", "ready", "failed"}

\* (mutant) no fill is painted while the element is not ready
Background_NoFill(imgs, a, load) ==
  IF a = 0 THEN "black"
  ELSE IF load = "ready" THEN imgs[a].type
  ELSE "none"

\* What is painted behind the overlay.  img.complete is true once the load has
\* ended, in an error too, so a failed image takes the drawImage branch, which
\* paints nothing; a failed video never reaches readyState 2.  The fills are
\* '#000' ("black": image or no visual) and '#111' ("dark": video).
Background(imgs, a, load) ==
  IF a = 0 THEN "black"
  ELSE IF imgs[a].type = "image"
    THEN (CASE load = "loading" -> "black"
            [] load = "ready"   -> "image"
            [] load = "failed"  -> "none")
    ELSE (IF load = "ready" THEN "video" ELSE "dark")

\* ctx.drawImage(img, ...) of an image in the broken state: the browser either
\* raises InvalidStateError or returns without painting.
DrawImage(imgs, a, load) ==
  IF a # 0 /\ imgs[a].type = "image" /\ load = "failed"
    THEN {"throws", "returns"}
    ELSE {"returns"}

\* The elements held by this instance's video cache.
VideoIds == {videoCache[u] : u \in DOMAIN videoCache}

\* v.play() on the active entry: paused becomes false, except for a failed
\* element, whose play() is rejected (and caught).
Activated(imgs, a, load) ==
  LET k == imgs[a].mediaUrl
      act == IF k \in DOMAIN videoCache THEN {videoCache[k]} ELSE {}
  IN IF load = "failed" THEN act \cap playing ELSE act

\* (mutant) the other cache entries are not paused
PlayingAfter_NoPause(imgs, a, load) ==
  IF a = 0 THEN playing
  ELSE IF imgs[a].type = "image" THEN playing
  ELSE playing \cup Activated(imgs, a, load)

\* The video elements playing after the frame: an image pauses every cache
\* entry, a video plays its own entry and pauses the others, no visual
\* touches none.
PlayingAfter(imgs, a, load) ==
  IF a = 0 THEN playing
  ELSE IF imgs[a].type = "image" THEN playing \ VideoIds
  ELSE (playing \ VideoIds) \cup Activated(imgs, a, load)

\* --- 4. isIntro
\* (mutant) the intro lasts until the first lyric starts
isIntro_NoLead(lyr, t) == Len(lyr) > 0 /\ t < lyr[1].startTime

isIntro(lyr, t) == Len(lyr) > 0 /\ t < lyr[1].startTime - IntroLead

\* lyrics.find(seg => currentTime >= seg.startTime && currentTime < seg.endTime)
RECURSIVE FindLyric(_, _, _)
FindLyric(lyr, t, i) ==
  IF i > Len(lyr) THEN 0
  ELSE IF t >= lyr[i].startTime /\ t < lyr[i].endTime THEN i
  ELSE FindLyric(lyr, t, i + 1)

\* (mutant) the end of the interval is included
RECURSIVE FindLyricInclusive(_, _, _)
FindLyricInclusive(lyr, t, i) ==
  IF i > Len(lyr) THEN 0
  ELSE IF t >= lyr[i].startTime /\ t <= lyr[i].endTime THEN i
  ELSE FindLyricInclusive(lyr, t, i + 1)

activeLyric_InclusiveEnd(lyr, t) == FindLyricInclusive(lyr, t, 1)

\* (mutant) the end of the interval is not tested
RECURSIVE FindLyricFrom(_, _, _)
FindLyricFrom(lyr, t, i) ==
  IF i > Len(lyr) THEN 0
  ELSE IF t >= lyr[i].startTime THEN i
  ELSE FindLyricFrom(lyr, t, i + 1)

activeLyric_StartOnly(lyr, t) == FindLyricFrom(lyr, t, 1)

activeLyric(lyr, t) == FindLyric(lyr, t, 1)

\* --- The animation curves.  A value is a fraction [n, d] with d > 0; the
\* results of a division by zero are 0/0 (NaN) and -1/0 (-Infinity).
Frac(n, d) == [n |-> n, d |-> d]
One == Frac(1, 1)
NaN == Frac(0, 0)
NegInfinity == Frac(-1, 0)
FracLeq(a, b) == a.n * b.d <= b.n * a.d
FracLess(a, b) == a.n * b.d < b.n * a.d
FracEq(a, b) == a.d # 0 /\ b.d # 0 /\ a.n * b.d = b.n * a.d
MinOf(a, b) == IF a <= b THEN a ELSE b
MaxOf(a, b) == IF a >= b THEN a ELSE b

\* progress = Math.min(elapsed / lyricDuration, 1)
Progress(elapsed, lyricDuration) ==
  IF lyricDuration = 0
    THEN (IF elapsed > 0 THEN One ELSE IF elapsed = 0 THEN NaN ELSE NegInfinity)
    ELSE LET q == IF lyricDuration > 0 THEN Frac(elapsed, lyricDuration)
                  ELSE Frac(-elapsed, -lyricDuration)
         IN IF q.n >= q.d THEN One ELSE q

\* (mutant) the fill is progress * 1.2, unclamped
KaraokeFill_Unclamped(progress) == Frac(6 * progress.n, 5 * progress.d)

\* Karaoke: Math.min(progress * 1.2, 1), the filled share of the text width
KaraokeFill(progress) ==
  Frac(MinOf(6 * progress.n, 5 * progress.d), 5 * progress.d)

\* (mutant) no entry animation: the scale stays 1
SnapScale_NoEntry(elapsed) == One

\* Snap: scale = 1 + 3 * (1 - elapsed / entryDur)^3 while elapsed < entryDur
SnapScale(elapsed) ==
  IF elapsed < EntryDur
    THEN Frac(EntryDur * EntryDur * EntryDur
                + 3 * (EntryDur - elapsed) * (EntryDur - elapsed)
                    * (EntryDur - elapsed),
              EntryDur * EntryDur * EntryDur)
    ELSE One

\* (mutant) the title never fades out
IntroAlpha_NoFadeOut(time, firstLyricTime) ==
  IF time < FadeIn THEN Frac(time, FadeIn) ELSE One

\* Intro: alpha = currentTime in the first second, then
\* max(0, (firstLyricTime - 0.5) - currentTime) once past firstLyricTime - 1.5
IntroAlpha(time, firstLyricTime) ==
  IF time < FadeIn THEN Frac(time, FadeIn)
  ELSE IF time > firstLyricTime - FadeOutStart
    THEN Frac(MaxOf(0, (firstLyricTime - IntroEnd) - time), FadeIn)
    ELSE One

\* Ken Burns: scale = 1.0 + Math.min(timeElapsed / 10, 1) * 0.1
KenBurnsScale(timeElapsed) ==
  Frac(10 * KenBurnsDur + MinOf(timeElapsed, KenBurnsDur), 10 * KenBurnsDur)

\* What a frame paints, in order: the background (nothing for a failed
\* image), the overlay, then the title or the active lyric.
PaintOps(bg, intro, lyric) ==
  (IF bg = "none" THEN <<>> ELSE <<bg>>)
    \o <<"overlay">>
    \o (IF intro THEN <<"title">> ELSE IF lyric # 0 THEN <<"lyric">> ELSE <<>>)

\* One completed run of the render effect at time t; load is the state of the
\* active visual's element, ready says that it is loaded and drawable.
RenderFrame(imgs, lyr, t, load) ==
  LET a == ActiveVisual(imgs, t)
      intro == isIntro(lyr, t)
      bg == Background(imgs, a, load)
      lyric == IF intro THEN 0 ELSE activeLyric(lyr, t)
  IN [drawn |-> TRUE, t |-> t, ready |-> (load = "ready"), load |-> load,
      active |-> a, bg |-> bg, overlay |-> 1, intro |-> intro,
      lyric |-> lyric, ops |-> PaintOps(bg, intro, lyric),
      scale |-> IF bg = "image" THEN KenBurnsScale(t - imgs[a].timeIndex)
                ELSE NoValue,
      progress |-> IF lyric # 0
                     THEN Progress(t - lyr[lyric].startTime,
                                   lyr[lyric].endTime - lyr[lyric].startTime)
                     ELSE NoValue]

\* The lists handed to the player: visuals in timeIndex order, lyric segments
\* in startTime order (end times unchecked).
SeqsUpTo(S, n) == UNION {[1..k -> S] : k \in 0..n}

SortedBy(seq, f(_)) ==
  \A i, j \in DOMAIN seq : i < j => f(seq[i]) <= f(seq[j])

TimeIndexOf(v) == v.timeIndex
StartTimeOf(seg) == seg.startTime

\* Every generated visual has a mediaUrl of its own (a data: or blob: URL).
OwnUrls(l) ==
  [i \in DOMAIN l |->
     [timeIndex |-> l[i].timeIndex, type |-> l[i].type, mediaUrl |-> i]]

\* generateMVVisuals gives every visual of a list the session's visualType.
AssetLists(n) ==
  {OwnUrls(l) : l \in
     {l \in SeqsUpTo([timeIndex : 0..MaxT, type : VisualTypes], n) :
        /\ SortedBy(l, TimeIndexOf)
        /\ \A i, j \in DOMAIN l : l[i].type = l[j].type}}

LyricLists(n) ==
  {l \in SeqsUpTo([startTime : 0..MaxT, endTime : 0..MaxT], n) :
     SortedBy(l, StartTimeOf)}

\* A mounted player: the preload effect has run on fresh caches.
Preloaded(old) ==
  LET c == Preload(images', old)
  IN /\ elements' = c.elements
     /\ imageCache' = c.imageCache
     /\ videoCache' = c.videoCache

CanvasInit ==
  /\ WrapIdle
  /\ AnimIdle
  /\ GenIdle
  /\ images \in AssetLists(MaxItems)
  /\ lyrics \in LyricLists(MaxItems - Len(images))
  /\ fontsLoaded = FALSE
  /\ frame = NoFrame
  /\ mounted = TRUE
  /\ crashed = FALSE
  /\ LET c == Preload(images, <<>>)
     IN /\ elements = c.elements
        /\ imageCache = c.imageCache
        /\ videoCache = c.videoCache
  /\ playing = {}

\* One run of the render effect at time t, past its early return: the videos
\* are played / paused, then the frame is drawn.  An exception from drawImage
\* leaves the effect: nothing is drawn and React unmounts the tree.
RenderEffect(t) ==
  LET a == ActiveVisual(images, t)
  IN \E load \in ElementStates(images, a) : \E out \in DrawImage(images, a, load) :
       /\ playing' = PlayingAfter(images, a, load)
       /\ IF out = "throws"
            THEN /\ frame' = NoFrame
                 /\ crashed' = TRUE
                 /\ mounted' = FALSE
            ELSE /\ frame' = RenderFrame(images, lyrics, t, load)
                 /\ UNCHANGED <<crashed, mounted>>

\* document.fonts.ready resolves: fontsLoaded flips and the render effect runs.
FontsReady ==
  /\ mounted
  /\ ~fontsLoaded
  /\ fontsLoaded' = TRUE
  /\ RenderEffect(currentTime)
  /\ UNCHANGED <<images, lyrics, elements, imageCache, videoCache, wrapVars,
                 animVars, genVars, appVars>>

\* The currentTime prop changes and the render effect runs; it returns early
\* until the fonts are loaded.
Render ==
  /\ mounted
  /\ fontsLoaded
  /\ \E t \in 0..(MaxT + 1) :
       /\ currentTime' = t
       /\ RenderEffect(t)
  /\ UNCHANGED <<images, lyrics, fontsLoaded, elements, imageCache, videoCache,
                 wrapVars, animVars, genVars, status, session, isPlaying, isRecording, paused, pos, dur, raf,
                 audioCtxRef, sourceNodeRef, sourcesCreated, mediaStreamDestRef, recs, files,
                 requests, thrown, alerts>>

CanvasNext ==
  \/ FontsReady
  \/ Render

RenderInit == AppInit /\ CanvasInit

SpecRender == RenderInit /\ [][CanvasNext]_vars

\* -------------------------------------------------------- getWrappedLines
\* A text is the sequence of its characters (text.split('')), each character
\* standing for its width; ctx.measureText(s).width is the sum of the widths,
\* so appending a character never shrinks it.
RECURSIVE Measure(_)
Measure(str) == IF str = <<>> THEN 0 ELSE Head(str) + Measure(Tail(str))

\* (mutant) the loop tests the line before the character is appended
RECURSIVE WrapFrom_LateBreak(_, _, _, _, _)
WrapFrom_LateBreak(words, maxWidth, i, lines, currentLine) ==
  IF i > Len(words) THEN Append(lines, currentLine)
  ELSE IF Measure(currentLine) < maxWidth
    THEN WrapFrom_LateBreak(words, maxWidth, i + 1, lines,
                            Append(currentLine, words[i]))
    ELSE WrapFrom_LateBreak(words, maxWidth, i + 1, Append(lines, currentLine),
                            <<words[i]>>)

getWrappedLines_LateBreak(text, maxWidth) ==
  IF Measure(text) <= maxWidth THEN <<text>>
  ELSE WrapFrom_LateBreak(text, maxWidth, 2, <<>>,
                          IF text = <<>> THEN <<>> ELSE <<text[1]>>)

\* (mutant) the character that closes a line is not carried to the next one
RECURSIVE WrapFrom_DropBreak(_, _, _, _, _)
WrapFrom_DropBreak(words, maxWidth, i, lines, currentLine) ==
  IF i > Len(words) THEN Append(lines, currentLine)
  ELSE IF Measure(Append(currentLine, words[i])) < maxWidth
    THEN WrapFrom_DropBreak(words, maxWidth, i + 1, lines,
                            Append(currentLine, words[i]))
    ELSE WrapFrom_DropBreak(words, maxWidth, i + 1, Append(lines, currentLine),
                            <<>>)

getWrappedLines_DropBreak(text, maxWidth) ==
  IF Measure(text) <= maxWidth THEN <<text>>
  ELSE WrapFrom_DropBreak(text, maxWidth, 2, <<>>,
                          IF text = <<>> THEN <<>> ELSE <<text[1]>>)

\* for (i = 1; ...): the character joins the current line while the line with
\* it measures less than maxWidth, else it starts the next line.
RECURSIVE WrapFrom(_, _, _, _, _)
WrapFrom(words, maxWidth, i, lines, currentLine) ==
  IF i > Len(words) THEN Append(lines, currentLine)
  ELSE IF Measure(Append(currentLine, words[i])) < maxWidth
    THEN WrapFrom(words, maxWidth, i + 1, lines, Append(currentLine, words[i]))
    ELSE WrapFrom(words, maxWidth, i + 1, Append(lines, currentLine),
                  <<words[i]>>)

\* (mutant) no early return for a text that fits
getWrappedLines_NoEarlyReturn(text, maxWidth) ==
  WrapFrom(text, maxWidth, 2, <<>>, IF text = <<>> THEN <<>> ELSE <<text[1]>>)

\* currentLine = words[0] || ''; a text that fits is returned whole.
getWrappedLines(text, maxWidth) ==
  IF Measure(text) <= maxWidth THEN <<text>>
  ELSE WrapFrom(text, maxWidth, 2, <<>>,
                IF text = <<>> THEN <<>> ELSE <<text[1]>>)

Texts == SeqsUpTo(0..MaxCharW, MaxLen)

WrapInit ==
  /\ wrapText \in Texts
  /\ wrapMaxWidth \in 0..MaxWidth
  /\ wrapLines = <<>>

\* The call getWrappedLines(ctx, text, maxWidth).
Wrap ==
  /\ wrapLines = <<>>
  /\ wrapLines' = getWrappedLines(wrapText, wrapMaxWidth)
  /\ UNCHANGED <<wrapText, wrapMaxWidth, images, lyrics, fontsLoaded, frame,
                 mounted, crashed, elements, imageCache, videoCache, playing,
                 animVars, genVars, appVars>>

WrapSpecInit ==
  /\ AppInit
  /\ WrapInit
  /\ AnimIdle
  /\ GenIdle
  /\ images = <<>>
  /\ lyrics = <<>>
  /\ fontsLoaded = FALSE
  /\ frame = NoFrame
  /\ mounted = FALSE
  /\ crashed = FALSE
  /\ elements = <<>>
  /\ imageCache = <<>>
  /\ videoCache = <<>>
  /\ playing = {}

SpecWrap == WrapSpecInit /\ [][Wrap]_vars

\* ------------------------------------------------- the animation curves
AnimInit ==
  /\ animTime \in 0..MaxTicks
  /\ animSpan \in 0..MaxTicks
  /\ animOut = NoValue

\* A lyric is drawn in the Karaoke style, elapsed = animTime into a segment of
\* lyricDuration = animSpan.
DrawKaraoke ==
  /\ animOut = NoValue
  /\ animSpan > 0
  /\ animOut' = [kind |-> "karaoke",
                 value |-> KaraokeFill(Progress(animTime, animSpan))]
  /\ UNCHANGED <<animTime, animSpan, images, lyrics, fontsLoaded, frame,
                 mounted, crashed, elements, imageCache, videoCache, playing,
                 wrapVars, genVars, appVars>>

\* A lyric is drawn in the Snap style, elapsed = animTime.
DrawSnap ==
  /\ animOut = NoValue
  /\ animOut' = [kind |-> "snap", value |-> SnapScale(animTime)]
  /\ UNCHANGED <<animTime, animSpan, images, lyrics, fontsLoaded, frame,
                 mounted, crashed, elements, imageCache, videoCache, playing,
                 wrapVars, genVars, appVars>>

\* The title is drawn: currentTime = animTime is in the intro phase of a
\* list whose first lyric starts at firstLyricTime = animSpan.
DrawTitle ==
  /\ animOut = NoValue
  /\ animTime < animSpan - IntroEnd
  /\ animOut' = [kind |-> "title", value |-> IntroAlpha(animTime, animSpan)]
  /\ UNCHANGED <<animTime, animSpan, images, lyrics, fontsLoaded, frame,
                 mounted, crashed, elements, imageCache, videoCache, playing,
                 wrapVars, genVars, appVars>>

AnimNext ==
  \/ DrawKaraoke
  \/ DrawSnap
  \/ DrawTitle

AnimSpecInit ==
  /\ AppInit
  /\ WrapIdle
  /\ AnimInit
  /\ GenIdle
  /\ images = <<>>
  /\ lyrics = <<>>
  /\ fontsLoaded = FALSE
  /\ frame = NoFrame
  /\ mounted = FALSE
  /\ crashed = FALSE
  /\ elements = <<>>
  /\ imageCache = <<>>
  /\ videoCache = <<>>
  /\ playing = {}

SpecAnim == AnimSpecInit /\ [][AnimNext]_vars

\* ------------------------------------------------- generateMVVisuals
\* Times are in seconds; the model's segments start on a grid of 20 s, or at
\* 15 s, so that both intervals are met exactly by some pair of segments.
StartTimes == {20 * k : k \in 0..MaxStart} \cup {15}

\* const interval = visualType === VisualType.Video ? 20 : 15
interval(vt) == IF vt = "video" THEN 20 ELSE 15

\* const maxItems = visualType === VisualType.Video ? 4 : 8, with the model's
\* caps in place of 4 and 8
maxItems(vt) == IF vt = "video" THEN MaxVideos ELSE MaxImages

\* (mutant) a segment is a key segment already at interval seconds
RECURSIVE KeySegmentsFrom_AtLeast(_, _, _, _)
KeySegmentsFrom_AtLeast(segs, vt, i, lastTime) ==
  IF i > Len(segs) THEN <<>>
  ELSE IF segs[i].startTime - lastTime >= interval(vt)
    THEN <<[segment |-> segs[i], index |-> i - 1]>>
           \o KeySegmentsFrom_AtLeast(segs, vt, i + 1, segs[i].startTime)
    ELSE KeySegmentsFrom_AtLeast(segs, vt, i + 1, lastTime)

keySegments_AtLeast(segs, vt) == KeySegmentsFrom_AtLeast(segs, vt, 1, -999)

\* segments.forEach((seg, index) => { if (seg.startTime - lastTime > interval)
\*   { keySegments.push({ segment: seg, index }); lastTime = seg.startTime } })
RECURSIVE KeySegmentsFrom(_, _, _, _)
KeySegmentsFrom(segs, vt, i, lastTime) ==
  IF i > Len(segs) THEN <<>>
  ELSE IF segs[i].startTime - lastTime > interval(vt)
    THEN <<[segment |-> segs[i], index |-> i - 1]>>
           \o KeySegmentsFrom(segs, vt, i + 1, segs[i].startTime)
    ELSE KeySegmentsFrom(segs, vt, i + 1, lastTime)

\* let lastTime = -999
keySegments(segs, vt) == KeySegmentsFrom(segs, vt, 1, -999)

\* keySegments.slice(0, maxItems)
selectedKeySegments(segs, vt) ==
  LET keys == keySegments(segs, vt)
  IN SubSeq(keys, 1, IF Len(keys) < maxItems(vt) THEN Len(keys) ELSE maxItems(vt))

\* The call generateMVVisuals(segments, aspectRatio, visualType, ...): the
\* segment list is the caller's, in whatever order it has.
GenInit ==
  /\ segments \in SeqsUpTo([startTime : StartTimes], MaxSegs)
  /\ visualType \in {"image", "video"}
  /\ genI = 1
  /\ genSkipped = {}
  /\ visuals = <<>>
  /\ genReturned = FALSE

\* One iteration of the generation loop. The request answers with media and
\* the visual is pushed; or it throws (caught and logged), answers without
\* inline data, or the video operation ends without a uri, and nothing is
\* pushed.
GenerateVisual ==
  /\ ~genReturned
  /\ genI <= Len(selectedKeySegments(segments, visualType))
  /\ genI' = genI + 1
  /\ \/ /\ visuals' = Append(visuals,
                             [timeIndex |-> selectedKeySegments(segments, visualType)[genI].segment.startTime,
                              mediaUrl |-> genI,
                              type |-> visualType])
        /\ UNCHANGED genSkipped
     \/ /\ genSkipped' = genSkipped \cup {genI}
        /\ UNCHANGED visuals
  /\ UNCHANGED <<segments, visualType, genReturned, images, lyrics, fontsLoaded,
                 frame, mounted, crashed, elements, imageCache, videoCache,
                 playing, wrapVars, animVars, appVars>>

\* return visuals
ReturnVisuals ==
  /\ ~genReturned
  /\ genI > Len(selectedKeySegments(segments, visualType))
  /\ genReturned' = TRUE
  /\ UNCHANGED <<segments, visualType, genI, genSkipped, visuals, images,
                 lyrics, fontsLoaded, frame, mounted, crashed, elements,
                 imageCache, videoCache, playing, wrapVars, animVars, appVars>>

GenNext ==
  \/ GenerateVisual
  \/ ReturnVisuals

GenSpecInit ==
  /\ AppInit
  /\ WrapIdle
  /\ AnimIdle
  /\ GenInit
  /\ images = <<>>
  /\ lyrics = <<>>
  /\ fontsLoaded = FALSE
  /\ frame = NoFrame
  /\ mounted = FALSE
  /\ crashed = FALSE
  /\ elements = <<>>
  /\ imageCache = <<>>
  /\ videoCache = <<>>
  /\ playing = {}

SpecVisuals == GenSpecInit /\ [][GenNext]_vars

\* ------------------------------------------------- the player's life cycle
\* Any list a player may be handed: visuals in timeIndex order, several of
\* them possibly sharing a mediaUrl; a mediaUrl names one resource, so the
\* visuals sharing it have one type.
CacheAssetLists ==
  {l \in SeqsUpTo([timeIndex : 0..MaxT, type : VisualTypes,
                   mediaUrl : 1..MaxUrls], MaxItems) :
     /\ SortedBy(l, TimeIndexOf)
     /\ \A i, j \in DOMAIN l :
          l[i].mediaUrl = l[j].mediaUrl => l[i].type = l[j].type}

\* setMvData(data), setStatus(Ready): a CanvasPlayer is rendered with the
\* session's visuals; its effects run: the caches are filled, the render
\* effect returns early (the fonts are not loaded yet).
Mount ==
  /\ ~mounted
  /\ ~crashed
  /\ elements = <<>>
  /\ mounted' = TRUE
  /\ images' \in CacheAssetLists
  /\ Preloaded(elements)
  /\ fontsLoaded' = FALSE
  /\ frame' = NoFrame
  /\ UNCHANGED <<lyrics, crashed, playing, wrapVars, animVars, genVars, appVars>>

\* handleRestart (setMvData(null), setStatus(Idle)): the CanvasPlayer is
\* unmounted.  No effect of the player returns a cleanup and handleRestart
\* does not reach the caches: the elements stay as they are.
Unmount ==
  /\ mounted
  /\ mounted' = FALSE
  /\ UNCHANGED <<images, lyrics, fontsLoaded, frame, crashed, elements,
                 imageCache, videoCache, playing, wrapVars, animVars, genVars, appVars>>

CacheNext ==
  \/ Mount
  \/ FontsReady
  \/ Render
  \/ Unmount

SpecCache == Init /\ [][CacheNext]_vars

\* ------------------------------------------------------------------ Spec
Next ==
  \/ UploadStart
  \/ UploadDone
  \/ UploadFail
  \/ handleRestart
  \/ togglePlay
  \/ handleTimeSeek
  \/ handleDirectDownload
  \/ SettleTimeout
  \/ updateLoop
  \/ Advance
  \/ AudioEnded
  \/ onstop

Spec == Init /\ [][Next]_vars

\* The browser dispatches every queued stop event.
FairSpec == Spec /\ WF_vars(onstop)

\* ============================================================ App claims

\* The capture pipeline state of section 4.5, read off the recording flag and
\* the recorders.
Phase ==
  IF ~isRecording THEN "Idle"
  ELSE IF \E r \in DOMAIN recs : recs[r].state = "recording" THEN "Recording"
  ELSE IF \E r \in DOMAIN recs : recs[r].stopQ THEN "Finalizing"
  ELSE "Arming"

\* Export r is under way: its timer is pending, it records, or its stop event
\* is still to be dispatched.
InFlight(r) == recs[r].timer \/ recs[r].state = "recording" \/ recs[r].stopQ

FilesOf(r) == {i \in DOMAIN files : files[i].rec = r}

\* C1: whenever the audio element is playing (not paused) a frame callback is
\* pending, so the time handed to the compositor keeps being refreshed.
C1_FramePendingWhilePlaying == (AudioMounted /\ ~paused) => raf >= 1

\* C5: a second export never runs while an earlier one is under way: no two
\* recorders are armed, recording or finalizing at the same time.
C5_OneExportAtATime ==
  \A r1, r2 \in DOMAIN recs : (r1 < r2 /\ InFlight(r1)) => ~InFlight(r2)

\* C5 witness: a second export records, after the first one.
C5_Witness == Len(recs) = 2 /\ recs[2].state = "recording"

\* C6: the pipeline only moves Idle -> Arming -> Recording -> Finalizing ->
\* Idle (or Arming -> Idle); a recorder is started only from Arming and
\* stopped only from Recording; the recording flag falls only when a file is
\* delivered or the export is aborted with a message.
PhaseMoves ==
  {<<"Idle", "Arming">>, <<"Arming", "Recording">>,
   <<"Recording", "Finalizing">>, <<"Finalizing", "Idle">>,
   <<"Arming", "Idle">>}

C6_PipelineOrder ==
  [][ /\ Phase' # Phase => <<Phase, Phase'>> \in PhaseMoves
      /\ \A r \in DOMAIN recs :
           /\ (recs[r].state = "inactive" /\ recs'[r].state = "recording")
                => Phase = "Arming"
           /\ (recs[r].state = "recording" /\ recs'[r].state = "inactive")
                => Phase = "Recording"
      /\ (isRecording /\ ~isRecording')
           => (Len(files') = Len(files) + 1 \/ alerts' = alerts + 1)
    ]_vars

\* C6 witness: a whole cycle was made, the pipeline is Idle with a file delivered.
C6_Witness == Phase = "Idle" /\ Len(files) >= 1

\* C7: during the settle delay playback does not run, and every recording
\* begins with the audio at position 0.
C7_RecordingStartsAtZero ==
  \A r \in DOMAIN recs :
    /\ recs[r].timer => paused
    /\ recs[r].started => recs[r].startPos = 0

\* C8: when playback ends while export r records, r is stopped; a stopped
\* recorder's data is eventually delivered as exactly one file named from the
\* session title, and then the recording and playing flags are false.
DeliveredIdle(r) ==
  /\ Cardinality(FilesOf(r)) = 1
  /\ \A i \in FilesOf(r) : files[i].title = session
  /\ ~isRecording
  /\ ~isPlaying

C9_ArmingFailureAborts ==
  /\ alerts = thrown
  /\ (recs # <<>> /\ recs[Len(recs)].threw) => ~isRecording

\* C10 (restart while an export records) does not arise: whenever the restart
\* button is offered no export is under way, so handleRestart never meets a
\* recording recorder.
C10_RestartOnlyWhenNoExport ==
  RestartOffered => \A r \in DOMAIN recs : ~InFlight(r)

\* C14: outside a session no tap is held, a tap held in a session is bound to
\* that session's audio element, and a restart clears the source node and the
\* capture destination together.
C14_TapReleasedOnRestart ==
  /\ [](/\ ~AudioMounted => (sourceNodeRef = 0 /\ ~mediaStreamDestRef)
        /\ sourceNodeRef # 0 => sourceNodeRef = session)
  /\ [][(AudioMounted /\ ~AudioMounted')
          => (sourceNodeRef' = 0 /\ ~mediaStreamDestRef')]_vars

\* C14 witness: the second session exports through a tap of its own, the
\* first session having held one.
C14_Witness ==
  /\ session = 2
  /\ sourceNodeRef = 2
  /\ mediaStreamDestRef
  /\ Len(recs) = 2
  /\ recs[1].sess = 1

\* C12: at most one frame callback is pending at any time; a callback that
\* runs leaves a next one pending only while the audio is playing; none is
\* pending once playback has stopped (pause, ended) or the session is torn
\* down (restart), and none is pending while the playing flag is false.
C12_FrameCallbackChain ==
  /\ [](raf <= 1 /\ (~isPlaying => raf = 0))
  /\ [][ /\ updateLoop => (raf' >= 1 => (AudioMounted /\ ~paused))
         /\ (~paused /\ paused') => raf' = 0
         /\ (AudioMounted /\ ~AudioMounted') => raf' = 0 ]_vars

\* C12 witness: playback was started, a callback ran and chained the next
\* one, and the user paused: nothing is pending.
C12_Witness ==
  /\ AudioMounted
  /\ paused
  /\ ~isPlaying
  /\ currentTime > 0
  /\ pos = currentTime
  /\ pos < dur
  /\ raf = 0

\* ===================================================== CanvasPlayer claims

SortedAssets == SortedBy(images, TimeIndexOf)

C3_LastStartedAsset ==
  (frame.drawn /\ images # <<>> /\ SortedAssets
     /\ frame.t >= images[1].timeIndex)
    => LET a == frame.active
       IN /\ a \in DOMAIN images
          /\ images[a].timeIndex <= frame.t
          /\ \A i \in DOMAIN images : images[i].timeIndex <= frame.t => i <= a
          /\ frame.t >= images[Len(images)].timeIndex => a = Len(images)
          /\ a < Len(images) => frame.t < images[a + 1].timeIndex

\* C3 witness: two assets at different times, a frame past the second.
C3_Witness ==
  /\ frame.drawn
  /\ Len(images) = 2
  /\ images[1].timeIndex < images[2].timeIndex
  /\ frame.t > images[2].timeIndex
  /\ frame.active = 2

\* C4: for sorted, non-overlapping segments at most one segment contains t
\* (startTime <= t < endTime); that segment is the lyric drawn, and no lyric
\* is drawn when none contains t.
NonOverlapping ==
  \A i, j \in DOMAIN lyrics : i < j => lyrics[i].endTime <= lyrics[j].startTime

Containing(t) ==
  {i \in DOMAIN lyrics : lyrics[i].startTime <= t /\ t < lyrics[i].endTime}

C4_UniqueActiveLyric ==
  (frame.drawn /\ SortedBy(lyrics, StartTimeOf) /\ NonOverlapping)
    => /\ Cardinality(Containing(frame.t)) <= 1
       /\ \A i \in Containing(frame.t) : frame.lyric = i
       /\ Containing(frame.t) = {} => frame.lyric = 0

\* C4 witness: the second of two adjacent segments is drawn at its startTime,
\* which is the first one's endTime.
C4_Witness ==
  /\ frame.drawn
  /\ Len(lyrics) = 2
  /\ NonOverlapping
  /\ lyrics[1].startTime < lyrics[1].endTime
  /\ lyrics[1].endTime = lyrics[2].startTime
  /\ frame.t = lyrics[2].startTime
  /\ frame.lyric = 2

\* C11: after a frame is drawn at most one entry of the video cache is
\* playing, and it is the entry of the active visual; when the active visual
\* is a video every other entry is paused, when it is an image every entry is.
PlayingEntries == {u \in DOMAIN videoCache : videoCache[u] \in playing}

C11_OneVideoPlaying ==
  (mounted /\ frame.drawn)
    => /\ Cardinality(PlayingEntries) <= 1
       /\ \A u \in PlayingEntries :
            /\ frame.active # 0
            /\ images[frame.active].type = "video"
            /\ images[frame.active].mediaUrl = u
       /\ (frame.active # 0 /\ images[frame.active].type = "image")
            => PlayingEntries = {}

\* C11 witness: the second of two videos is active and playing, after the
\* first one was.
C11_Witness ==
  /\ mounted
  /\ frame.drawn
  /\ Cardinality(DOMAIN videoCache) = 2
  /\ frame.active = 2
  /\ images[1].mediaUrl # images[2].mediaUrl
  /\ PlayingEntries = {images[2].mediaUrl}
  /\ Len(elements) = 2

\* C13: once the player of a session is torn down by a restart, none of its
\* video elements is left playing.
C13_VideosPausedAfterRestart == (~mounted /\ ~crashed) => playing = {}

\* C15: the caches hold exactly one entry per distinct mediaUrl of the list
\* (image urls in the image cache, video urls in the video cache), the entry
\* is an element created for that url, exactly one element was created (one
\* load started) per url, and no step replaces or evicts an entry.
UrlsOf(type) == {images[i].mediaUrl : i \in {j \in DOMAIN images : images[j].type = type}}

ElementsFor(u) == {i \in DOMAIN elements : elements[i].url = u}

C15_OneEntryPerUrl ==
  /\ [](mounted =>
          /\ DOMAIN imageCache = UrlsOf("image")
          /\ DOMAIN videoCache = UrlsOf("video")
          /\ \A u \in DOMAIN imageCache :
               elements[imageCache[u]] = [url |-> u, type |-> "image"]
          /\ \A u \in DOMAIN videoCache :
               elements[videoCache[u]] = [url |-> u, type |-> "video"]
          /\ \A u \in UrlsOf("image") \cup UrlsOf("video") :
               Cardinality(ElementsFor(u)) = 1)
  /\ [][ /\ \A u \in DOMAIN imageCache :
              u \in DOMAIN imageCache' /\ imageCache'[u] = imageCache[u]
         /\ \A u \in DOMAIN videoCache :
              u \in DOMAIN videoCache' /\ videoCache'[u] = videoCache[u]
         /\ \A i \in DOMAIN elements :
              i \in DOMAIN elements' /\ elements'[i] = elements[i] ]_vars

\* C15 witness: two visuals share a mediaUrl, one element serves both, and a
\* frame was drawn from the cache.
C15_Witness ==
  /\ mounted
  /\ Len(images) = 2
  /\ images[1].mediaUrl = images[2].mediaUrl
  /\ Len(elements) = 1
  /\ frame.drawn
  /\ frame.active = 2

\* The active visual's element is not ready yet (or there is no active
\* visual): the code's readiness test is false.
NotReady ==
  \/ frame.active = 0
  \/ frame.load = "loading"
  \/ (images[frame.active].type = "video" /\ frame.load # "ready")

\* C16 (as claimed): with no active visual, or one that is not ready yet, the
\* background is solid black and the overlay follows.
C16_NotReadyPaintsBlack ==
  (frame.drawn /\ NotReady)
    => (frame.bg = "black" /\ frame.overlay = 1)

\* C16 (amended): with no active visual, or one that is not ready yet, the
\* background is a solid fill, black ('#000') for no visual or an image and
\* dark grey ('#111') for a video, and the overlay is painted right after it.
C16_NotReadyPaintsFill ==
  (frame.drawn /\ NotReady)
    => /\ frame.bg = (IF frame.active # 0 /\ images[frame.active].type = "video"
                        THEN "dark" ELSE "black")
       /\ frame.overlay = 1
       /\ frame.ops[1] = frame.bg
       /\ frame.ops[2] = "overlay"

\* C16 witness: a frame whose active video is still loading, on the dark fill.
C16_Witness ==
  /\ frame.drawn
  /\ frame.active # 0
  /\ images[frame.active].type = "video"
  /\ frame.load = "loading"
  /\ frame.bg = "dark"
  /\ frame.overlay = 1

\* C17: the render effect never throws, and a frame whose active visual
\* failed to load has a solid fill behind the overlay.
C17_FailedAssetDegrades ==
  /\ ~crashed
  /\ (frame.drawn /\ frame.active # 0 /\ frame.load = "failed")
       => (frame.bg \in {"black", "dark"} /\ frame.overlay = 1)

\* C18: a frame is an intro frame exactly when the segment list is non-empty
\* and t is more than the intro lead before the first startTime; with an
\* empty list a frame is no intro and draws no text; an intro frame draws the
\* title and no lyric.
TextOps == {i \in DOMAIN frame.ops : frame.ops[i] \in {"title", "lyric"}}

C18_IntroPhase ==
  frame.drawn
    => /\ frame.intro <=>
            (lyrics # <<>> /\ frame.t < lyrics[1].startTime - IntroLead)
       /\ lyrics = <<>> => (~frame.intro /\ frame.lyric = 0 /\ TextOps = {})
       /\ frame.intro =>
            /\ frame.lyric = 0
            /\ \A i \in TextOps : frame.ops[i] = "title"
            /\ TextOps # {}

\* C18 witness: the last intro frame before the lead, over a visual, with the
\* title as its only text.
C18_Witness ==
  /\ frame.drawn
  /\ frame.intro
  /\ images # <<>>
  /\ frame.t = lyrics[1].startTime - IntroLead - 1
  /\ frame.ops[Len(frame.ops)] = "title"

\* C19: a drawn frame paints first the background (the visual or a fill), then
\* the overlay, exactly once, then at most one text, the title or a lyric.
C19_PaintOrder ==
  frame.drawn
    => /\ Len(frame.ops) \in {2, 3}
       /\ frame.ops[1] \in {"image", "video", "black", "dark"}
       /\ frame.ops[2] = "overlay"
       /\ Len(frame.ops) = 3 => frame.ops[3] \in {"title", "lyric"}
       /\ frame.overlay = 1

\* C25: a segment whose duration endTime - startTime is zero or negative is
\* never the lyric drawn, so progress is never a quotient by such a duration
\* (it is a proper fraction, or 1); the frames at the time of such a segment
\* are drawn all the same.
Duration(i) == lyrics[i].endTime - lyrics[i].startTime

C25_NoDivisionByBadDuration ==
  frame.drawn
    => /\ frame.lyric # 0 =>
            /\ Duration(frame.lyric) > 0
            /\ frame.progress.d > 0
            /\ FracLeq(frame.progress, One)
       /\ \A i \in DOMAIN lyrics :
            (Duration(i) <= 0 /\ frame.lyric = i) => FracEq(frame.progress, One)
       /\ frame.overlay = 1

\* C25 witness: a frame drawn at the startTime of a segment of zero or
\* negative duration, after the intro; a later segment is the lyric drawn.
C25_Witness ==
  /\ frame.drawn
  /\ Len(lyrics) = 2
  /\ Duration(1) <= 0
  /\ frame.t >= lyrics[1].startTime
  /\ frame.lyric = 2
  /\ ~FracEq(frame.progress, One)

\* C28: a frame that draws a ready image scales it by a factor in
\* [1.00, 1.10].
C28_KenBurnsRange ==
  (frame.drawn /\ frame.bg = "image")
    => /\ FracLeq(One, frame.scale)
       /\ FracLeq(frame.scale, Frac(11, 10))

\* ================================================= getWrappedLines claims

\* C20: every returned line of more than one character measures at most
\* maxWidth; a line measures more only when it is a single character that is
\* itself wider than maxWidth.
C20_LinesFit ==
  \A i \in DOMAIN wrapLines :
    /\ Len(wrapLines[i]) > 1 => Measure(wrapLines[i]) <= wrapMaxWidth
    /\ Measure(wrapLines[i]) > wrapMaxWidth
         => (Len(wrapLines[i]) = 1 /\ wrapLines[i][1] > wrapMaxWidth)

\* C20 witness: a text wrapped into a line of several characters and a line
\* that is one character wider than maxWidth.
C20_Witness ==
  /\ \E i \in DOMAIN wrapLines : Len(wrapLines[i]) > 1
  /\ \E i \in DOMAIN wrapLines : Measure(wrapLines[i]) > wrapMaxWidth

\* C21: the returned lines, concatenated in order, are the text: no
\* character is dropped, duplicated or moved.
RECURSIVE Concat(_)
Concat(ls) == IF ls = <<>> THEN <<>> ELSE Head(ls) \o Concat(Tail(ls))

C21_LinesCoverText == wrapLines # <<>> => Concat(wrapLines) = wrapText

\* C21 witness: a text of different characters wrapped into several lines.
C21_Witness ==
  /\ Len(wrapLines) >= 2
  /\ Len(wrapText) = MaxLen
  /\ wrapText[1] # wrapText[2]
  /\ Concat(wrapLines) = wrapText

\* C22: a text that measures at most maxWidth comes back as one line equal
\* to it; so every returned line that fits comes back unchanged when wrapped
\* again.
C22_ShortTextOneLine ==
  wrapLines # <<>>
    => /\ Measure(wrapText) <= wrapMaxWidth => wrapLines = <<wrapText>>
       /\ \A i \in DOMAIN wrapLines :
            Measure(wrapLines[i]) <= wrapMaxWidth
              => getWrappedLines(wrapLines[i], wrapMaxWidth) = <<wrapLines[i]>>

\* C22 witness: a text of several characters that measures exactly maxWidth
\* is returned whole.
C22_Witness ==
  /\ wrapLines = <<wrapText>>
  /\ Len(wrapText) >= 2
  /\ Measure(wrapText) = wrapMaxWidth
  /\ wrapText[Len(wrapText)] > 0

\* C23: for a text wider than maxWidth a line is closed before a character
\* only when the line with that character would measure more than maxWidth,
\* and a character stays on its line whenever the line with it measures at
\* most maxWidth.
C23_BreakOnlyWhenExceeding ==
  (wrapLines # <<>> /\ Measure(wrapText) > wrapMaxWidth)
    => \A k \in 1..(Len(wrapLines) - 1) :
         Measure(Append(wrapLines[k], wrapLines[k + 1][1])) > wrapMaxWidth

\* ============================================== animation curve claims

\* C24: for a segment of positive duration the Karaoke fill lies in [0, 1],
\* does not decrease when elapsed grows, and is 1 from elapsed =
\* segmentDuration on (it reaches 1 no later than that).
C24_KaraokeFill ==
  animOut.kind = "karaoke"
    => LET fill == animOut.value
           later == KaraokeFill(Progress(animTime + 1, animSpan))
       IN /\ FracLeq(Frac(0, 1), fill)
          /\ FracLeq(fill, One)
          /\ FracLeq(fill, later)
          /\ animTime >= animSpan => FracEq(fill, One)

\* C24 witness: the fill is complete before the segment ends.
C24_Witness ==
  /\ animOut.kind = "karaoke"
  /\ animTime < animSpan
  /\ FracEq(animOut.value, One)

C27_FadeOutBeforeFirstLyric ==
  animOut.kind = "title"
    => /\ animTime <= FadeIn => FracEq(animOut.value, Frac(animTime, FadeIn))
       /\ (animTime >= FadeIn /\ animTime <= animSpan - FadeIn)
            => FracEq(animOut.value, One)
       /\ (animTime >= FadeIn /\ animTime >= animSpan - FadeIn)
            => FracEq(animOut.value, Frac(animSpan - animTime, FadeIn))

\* C27 (amended): in the intro the title opacity is t in the first second;
\* from then on it is 1 until 1.5 s before the first lyric's startTime and
\* then falls linearly, reaching 0 at the end of the intro, 0.5 s before that
\* startTime.
C27_FadeOutBeforeIntroEnd ==
  animOut.kind = "title"
    => /\ animTime < FadeIn => FracEq(animOut.value, Frac(animTime, FadeIn))
       /\ (animTime >= FadeIn /\ animTime <= animSpan - FadeOutStart)
            => FracEq(animOut.value, One)
       /\ (animTime >= FadeIn /\ animTime >= animSpan - FadeOutStart)
            => FracEq(animOut.value,
                      Frac((animSpan - IntroEnd) - animTime, FadeIn))

\* C27 witness: a title half faded out, after a stretch at full opacity.
C27_Witness ==
  /\ animOut.kind = "title"
  /\ animSpan - FadeOutStart > FadeIn
  /\ animTime > animSpan - FadeOutStart
  /\ FracEq(animOut.value, Frac(1, 2))

\* ================================================= audio tap claims
\* C29: over any sequence of exports and restarts each session's audio
\* element gets at most one media-element source; a step creates one only
\* while sourceNodeRef is null, for the element of the current session, and
\* an export made while the tap exists leaves it as it is.
SourceCreatedFor(s) == sourcesCreated'[s] > sourcesCreated[s]

C29_OneSourcePerSession ==
  /\ [](\A s \in 1..MaxSessions : sourcesCreated[s] <= 1)
  /\ [][\A s \in 1..MaxSessions :
          /\ SourceCreatedFor(s)
               => (s = session /\ sourceNodeRef = 0 /\ sourceNodeRef' = s)
          /\ (requests' > requests /\ sourceNodeRef # 0)
               => (sourceNodeRef' = sourceNodeRef /\ ~SourceCreatedFor(s))]_vars

\* C29 witness: a second export of session 1 was armed on the tap of the
\* first one, and the element has one source.
C29_Witness ==
  /\ Len(recs) = 2
  /\ recs[1].sess = 1
  /\ recs[2].sess = 1
  /\ sourceNodeRef = 1
  /\ sourcesCreated[1] = 1

\* ================================================= generateMVVisuals claims
\* C30: whatever the order of the input segments, the visuals returned are
\* strictly ascending by timeIndex, consecutive ones more than interval
\* seconds apart (15 for images, 20 for video), at most maxItems of them, and
\* they are the selected key segments whose generation was not skipped, in
\* the order of selection.
RECURSIVE Kept(_, _)
Kept(keys, i) ==
  IF i > Len(keys) THEN <<>>
  ELSE (IF i \in genSkipped THEN <<>> ELSE <<keys[i].segment.startTime>>)
         \o Kept(keys, i + 1)

C30_VisualsAscendingAndCapped ==
  genReturned
    => /\ \A k \in 1..(Len(visuals) - 1) :
            /\ visuals[k].timeIndex < visuals[k + 1].timeIndex
            /\ visuals[k + 1].timeIndex - visuals[k].timeIndex
                 > (IF visualType = "video" THEN 20 ELSE 15)
       /\ Len(visuals) <= (IF visualType = "video" THEN MaxVideos ELSE MaxImages)
       /\ [k \in 1..Len(visuals) |-> visuals[k].timeIndex]
            = Kept(selectedKeySegments(segments, visualType), 1)

\* C30 witness: an unsorted list gave more key segments than the cap, the
\* generation of the second one was skipped, and the first and the third
\* were returned.
C30_Witness ==
  /\ genReturned
  /\ \E k \in 1..(Len(segments) - 1) :
       segments[k].startTime > segments[k + 1].startTime
  /\ Len(keySegments(segments, visualType)) > maxItems(visualType)
  /\ genSkipped = {2}
  /\ Len(visuals) = 2

====
